---- MODULE Spec2Model ----
(***************************************************************************)
(* A model of simple-browser-rs: selector matching and the cascade         *)
(* (src/src/style.rs, src/src/css_parser.rs, src/src/dom.rs) and the block *)
(* layout engine (src/src/layout.rs).                                      *)
(*                                                                         *)
(* Strings that the code only compares (tag names, ids, property names,   *)
(* keywords) are TLA+ strings.  Strings that the code takes apart (the     *)
(* class attribute, split on ' ') are sequences of one-character strings.  *)
(* An f32 is the binary fraction m / 2^e, a record [m, e] in lowest terms. *)
(* Every f32 operation rounds to the nearest value of 24 significant bits, *)
(* ties to even, as the code's does.  Magnitudes stay below 2^29: infinity *)
(* and NaN are not values of the model.                                    *)
(***************************************************************************)
EXTENDS Integers, Sequences, FiniteSets, TLC

VARIABLES
    pc,        \* position of the driver of the pipeline stage under study
    elem,      \* dom::ElementData given to the selector matcher / the cascade
    selector,  \* css_parser::SimpleSelector given to the matcher (a pair of
               \* them where two specificities are compared)
    matched,   \* result of style::matches (or of the comparison)
    sheet,     \* css_parser::StyleSheet.rules
    values,    \* result of style::specified_values (a PropertyMap)
    style_root,        \* the root style::StyledNode given to the layout stage
    layout_root,       \* the root layout::LayoutBox (the layout tree)
    containing_block,  \* the Dimensions passed to LayoutBox::layout
    container,         \* the box LayoutBox::get_inline_container returned last
    cursor,            \* next child the loop of build_layout_tree takes
    calls,             \* how many times layout was called on layout_root
    phase,             \* per box (by path): the last phase of layout_block done
    stack              \* the calls of LayoutBox::layout in progress, innermost last

vars == <<pc, elem, selector, matched, sheet, values,
          style_root, layout_root, containing_block, container, cursor, calls,
          phase, stack>>

styleVars == <<elem, selector, matched, sheet, values>>

layoutVars ==
    <<style_root, layout_root, containing_block, container, cursor, calls,
      phase, stack>>

\* Value of a variable a stage does not use.
Unused == "unused"

-----------------------------------------------------------------------------
(* Option<T> *)

None == [is_some |-> FALSE]

Some(x) == [is_some |-> TRUE, val |-> x]

Range(s) == {s[i] : i \in DOMAIN s}

-----------------------------------------------------------------------------
(* dom.rs *)

\* str::split(' ') : the pieces between single spaces, empty pieces included.
RECURSIVE SplitAcc(_, _, _)
SplitAcc(s, cur, acc) ==
    IF s = <<>> THEN Append(acc, cur)
    ELSE IF Head(s) = " " THEN SplitAcc(Tail(s), <<>>, Append(acc, cur))
    ELSE SplitAcc(Tail(s), Append(cur, Head(s)), acc)

\* ElementData::id
id(e) == e.id

\* ElementData::classes
classes(e) ==
    IF e.class.is_some THEN Range(SplitAcc(e.class.val, <<>>, <<>>)) ELSE {}

-----------------------------------------------------------------------------
(* f32: the value m / 2^e pixels, e = 0 or m odd. *)

\* The f32 of lowest terms equal to m / 2^e.
RECURSIVE f32_of(_, _)
f32_of(m, e) ==
    IF e = 0 \/ m % 2 # 0 THEN [m |-> m, e |-> e] ELSE f32_of(m \div 2, e - 1)

\* The f32 of an integer, as in the literal 0.0.
f32(n) == [m |-> n, e |-> 0]

\* Bits of the significand of an f32 (f32::MANTISSA_DIGITS).
MANTISSA_DIGITS == 24

\* The smallest positive f32 is 2^-MIN_POSITIVE_EXP (a subnormal).
MIN_POSITIVE_EXP == 149

\* The bits left for the numerators of a sum before it is rounded.
SUM_DIGITS == 29

\* The numerators an f32 of exponent up to MIN_POSITIVE_EXP has are below this.
f32_limit == 2 ^ MANTISSA_DIGITS

f32_abs(n) == IF n < 0 THEN -n ELSE n

\* The number of binary digits of n >= 0.
RECURSIVE f32_digits(_)
f32_digits(n) == IF n = 0 THEN 0 ELSE 1 + f32_digits(n \div 2)

\* -a
f32_neg(a) == [m |-> -a.m, e |-> a.e]

\* The f32 nearest to v / 2^e, ties to the even significand: the rounding of
\* every f32 operation.
f32_round(v, e) ==
    LET n == f32_digits(f32_abs(v))
        over == IF n - MANTISSA_DIGITS >= e - MIN_POSITIVE_EXP
                THEN n - MANTISSA_DIGITS ELSE e - MIN_POSITIVE_EXP
    IN  IF over <= 0 THEN f32_of(v, e)
        ELSE LET p == 2 ^ over
                 q == f32_abs(v) \div p
                 r == f32_abs(v) % p
                 up == 2 * r > p \/ (2 * r = p /\ q % 2 = 1)
                 k == (IF v < 0 THEN -1 ELSE 1) * (IF up THEN q + 1 ELSE q)
             IN  IF over <= e THEN f32_of(k, e - over)
                 ELSE f32_of(k * 2 ^ (over - e), 0)

\* a + b before rounding, as [v, e] for v / 2^e, where c is the operand of the
\* smaller exponent and f the other.  Where the numerators do not fit over one
\* denominator, the low digits of f are cut and kept as one sticky digit, which
\* rounds as the digits cut do.
f32_aligned(c, f) ==
    LET t == IF SUM_DIGITS > f32_digits(f32_abs(c.m))
             THEN SUM_DIGITS - f32_digits(f32_abs(c.m)) ELSE 0
        s == f.e - c.e
    IN  IF c.m = 0 THEN [v |-> f.m, e |-> f.e]
        ELSE IF s <= t THEN [v |-> c.m * 2 ^ s + f.m, e |-> f.e]
        ELSE LET cut == s - t
                 kept == IF cut >= MANTISSA_DIGITS
                         THEN (IF f.m < 0 THEN -1 ELSE 0)
                         ELSE f.m \div 2 ^ cut
                 sticky == IF cut >= MANTISSA_DIGITS \/ f.m % 2 ^ cut # 0
                           THEN 1 ELSE 0
             IN  [v |-> 2 * (c.m * 2 ^ t + kept) + sticky, e |-> c.e + t + 1]

\* a + b before rounding.
f32_exact_sum(a, b) ==
    IF a.e = b.e THEN [v |-> a.m + b.m, e |-> a.e]
    ELSE IF a.e < b.e THEN f32_aligned(a, b)
    ELSE f32_aligned(b, a)

\* a + b
f32_add(a, b) ==
    IF a.e = b.e /\ a.m + b.m < f32_limit /\ -(a.m + b.m) < f32_limit
    THEN f32_of(a.m + b.m, a.e)
    ELSE f32_round(f32_exact_sum(a, b).v, f32_exact_sum(a, b).e)

\* a - b
f32_sub(a, b) == f32_add(a, f32_neg(b))

\* a > b
f32_gt(a, b) ==
    IF a.e = b.e THEN a.m > b.m ELSE f32_exact_sum(a, f32_neg(b)).v > 0

\* a >= b
f32_ge(a, b) == ~f32_gt(b, a)

\* a / 2.0
f32_half(a) == f32_round(a.m, a.e + 1)

\* iter.fold(acc, |acc, x| acc + x), from item i of s on.
RECURSIVE f32_fold(_, _, _)
f32_fold(acc, s, i) ==
    IF i > Len(s) THEN acc ELSE f32_fold(f32_add(acc, s[i]), s, i + 1)

\* sum: the fold from 0.0, adding from the left.
f32_sum(s) == f32_fold(f32(0), s, 1)

-----------------------------------------------------------------------------
(* css_parser.rs : selectors *)

\* Value::Keyword
Keyword(k) == [type |-> "Keyword", keyword |-> k]

\* Value::Length(f, Unit::Px), f an f32.
Length(f) == [type |-> "Length", f |-> f, unit |-> "Px"]

\* The length of n whole pixels.
Px(n) == Length(f32(n))

\* Value::to_px
to_px(v) == IF v.type = "Length" /\ v.unit = "Px" THEN v.f ELSE f32(0)

\* Selector::specificity
specificity(s) ==
    <<IF s.id.is_some THEN 1 ELSE 0,
      Len(s.class),
      IF s.tag_name.is_some THEN 1 ELSE 0>>

\* An order that looks at the class count before the id count.
SpecLessClassCountFirst(x, y) ==
    \/ x[2] < y[2]
    \/ x[2] = y[2] /\ x[1] < y[1]
    \/ x[2] = y[2] /\ x[1] = y[1] /\ x[3] < y[3]

\* Ord on (usize, usize, usize): lexicographic.
SpecLess(x, y) ==
    \/ x[1] < y[1]
    \/ x[1] = y[1] /\ x[2] < y[2]
    \/ x[1] = y[1] /\ x[2] = y[2] /\ x[3] < y[3]

\* Ord::cmp on two specificities, as in a.0.cmp(&b.0).
cmp(x, y) ==
    IF SpecLess(x, y) THEN "Less"
    ELSE IF SpecLess(y, x) THEN "Greater"
    ELSE "Equal"

RECURSIVE InsertSelector(_, _)
InsertSelector(x, sorted) ==
    IF sorted = <<>> THEN <<x>>
    ELSE IF SpecLess(specificity(x), specificity(Head(sorted)))
         THEN <<x>> \o sorted
         ELSE <<Head(sorted)>> \o InsertSelector(x, Tail(sorted))

\* selectors.sort_by_key(|s| s.specificity()) : stable, ascending.
RECURSIVE SortSelectors(_)
SortSelectors(s) ==
    IF s = <<>> THEN <<>>
    ELSE InsertSelector(s[Len(s)], SortSelectors(SubSeq(s, 1, Len(s) - 1)))

\* CSSParser::parse_selectors on the simple selectors read up to '{'.
parse_selectors(raw) == SortSelectors(raw)

\* CSSParser::parse_rule
parse_rule(raw, decls) ==
    [selectors |-> parse_selectors(raw), declarations |-> decls]

-----------------------------------------------------------------------------
(* style.rs : matching *)

\* matches_simple_selector
matches_simple_selector(e, s) ==
    IF s.tag_name.is_some /\ e.tag_name # s.tag_name.val THEN FALSE
    ELSE IF s.id.is_some /\ id(e) # Some(s.id.val) THEN FALSE
    ELSE IF ~(\E i \in DOMAIN s.class : s.class[i] \in classes(e)) THEN FALSE
    ELSE TRUE

\* matches
matches(e, s) == matches_simple_selector(e, s)

\* Index of the first selector of the rule that matches (Iterator::find).
FirstMatch(e, sels) ==
    LET hit == {i \in DOMAIN sels : matches(e, sels[i])}
    IN  IF hit = {} THEN 0 ELSE CHOOSE i \in hit : \A j \in hit : i <= j

\* match_rule
match_rule(e, rule) ==
    LET i == FirstMatch(e, rule.selectors)
    IN  IF i = 0 THEN None
        ELSE Some(<<specificity(rule.selectors[i]), rule>>)

\* matching_rules : filter_map over the rules, in stylesheet order.
RECURSIVE matching_rules(_, _)
matching_rules(e, rules) ==
    IF rules = <<>> THEN <<>>
    ELSE LET m == match_rule(e, Head(rules))
         IN  (IF m.is_some THEN <<m.val>> ELSE <<>>)
                 \o matching_rules(e, Tail(rules))

-----------------------------------------------------------------------------
(* style.rs : the cascade *)

RECURSIVE InsertMatched(_, _)
InsertMatched(x, sorted) ==
    IF sorted = <<>> THEN <<x>>
    ELSE IF SpecLess(x[1], Head(sorted)[1])
         THEN <<x>> \o sorted
         ELSE <<Head(sorted)>> \o InsertMatched(x, Tail(sorted))

\* A sort that puts the higher specificity first.
RECURSIVE SortMatchedDescending(_)
SortMatchedDescending(m) ==
    IF m = <<>> THEN <<>>
    ELSE LET rest == SortMatchedDescending(Tail(m))
             hi == SelectSeq(rest, LAMBDA y : SpecLess(Head(m)[1], y[1]))
             lo == SelectSeq(rest, LAMBDA y : ~SpecLess(Head(m)[1], y[1]))
         IN  hi \o <<Head(m)>> \o lo

\* rules.sort_by(|a, b| a.0.cmp(&b.0)) : stable, ascending.
RECURSIVE SortMatched(_)
SortMatched(m) ==
    IF m = <<>> THEN <<>>
    ELSE InsertMatched(m[Len(m)], SortMatched(SubSeq(m, 1, Len(m) - 1)))

\* HashMap::insert
Insert(map, k, v) ==
    [x \in (DOMAIN map) \cup {k} |-> IF x = k THEN v ELSE map[x]]

\* for declaration in &rule.declarations { values.insert(..) }
RECURSIVE ApplyDeclarations(_, _)
ApplyDeclarations(map, decls) ==
    IF decls = <<>> THEN map
    ELSE ApplyDeclarations(Insert(map, Head(decls).name, Head(decls).value),
                           Tail(decls))

\* for (_, rule) in rules { .. }
RECURSIVE ApplyRules(_, _)
ApplyRules(map, ms) ==
    IF ms = <<>> THEN map
    ELSE ApplyRules(ApplyDeclarations(map, Head(ms)[2].declarations), Tail(ms))

\* HashMap::new()
EmptyMap == [x \in {} |-> Unused]

\* specified_values
specified_values(e, rules) ==
    ApplyRules(EmptyMap, SortMatched(matching_rules(e, rules)))

-----------------------------------------------------------------------------
(* style.rs : StyledNode *)

\* StyledNode { specified_values, children } ; the borrowed dom node is not read
\* by the layout stage.
StyledNode(sv, kids) == [specified_values |-> sv, children |-> kids]

\* StyledNode::value
value(node, name) ==
    IF name \in DOMAIN node.specified_values
    THEN Some(node.specified_values[name])
    ELSE None

\* StyledNode::lookup
lookup(node, name, fallback, default) ==
    IF value(node, name).is_some THEN value(node, name).val
    ELSE IF value(node, fallback).is_some THEN value(node, fallback).val
    ELSE default

\* StyledNode::display
display(node) ==
    LET v == value(node, "display")
    IN  IF v.is_some /\ v.val.type = "Keyword"
        THEN IF v.val.keyword = "block" THEN "Block"
             ELSE IF v.val.keyword = "none" THEN "None"
             ELSE "Inline"
        ELSE "Inline"

-----------------------------------------------------------------------------
(* layout.rs : boxes and their geometry *)

\* EdgeSizes::default()
ZeroEdges ==
    [left |-> f32(0), right |-> f32(0), top |-> f32(0), bottom |-> f32(0)]

\* Rectangle::default()
ZeroRectangle ==
    [x |-> f32(0), y |-> f32(0), width |-> f32(0), height |-> f32(0)]

\* Dimensions::default()
DefaultDimensions ==
    [content |-> ZeroRectangle, padding |-> ZeroEdges,
     border |-> ZeroEdges, margin |-> ZeroEdges]

\* Rectangle::expanded_by
expanded_by(r, edge) ==
    [x |-> f32_sub(r.x, edge.left),
     y |-> f32_sub(r.y, edge.top),
     width |-> f32_add(f32_add(r.width, edge.left), edge.right),
     height |-> f32_add(f32_add(r.height, edge.top), edge.bottom)]

\* Dimensions::padding_box
padding_box(d) == expanded_by(d.content, d.padding)

\* Dimensions::border_box
border_box(d) == expanded_by(padding_box(d), d.border)

\* Dimensions::margin_box
margin_box(d) == expanded_by(border_box(d), d.margin)

\* BoxType::BlockNode / BoxType::InlineNode
NodeBox(kind, node) == [kind |-> kind, node |-> node]

\* BoxType::AnonymousBlock
AnonymousBlock == [kind |-> "AnonymousBlock"]

\* LayoutBox::new
NewLayoutBox(box_type) ==
    [dimensions |-> DefaultDimensions, box_type |-> box_type, children |-> <<>>]

\* LayoutBox::get_style_node (panics on an AnonymousBlock; every caller is on
\* the BlockNode path of layout).
get_style_node(box) == box.box_type.node

-----------------------------------------------------------------------------
(* layout.rs : build_layout_tree and get_inline_container *)

\* A root with display: none gets a box like any inline node.
root_box_type_none_as_inline(node) ==
    IF display(node) = "Block" THEN Some(NodeBox("BlockNode", node))
    ELSE Some(NodeBox("InlineNode", node))

\* The match at the head of build_layout_tree: the box type of the node, or
\* None where the code panics ("Root node has display: none.").
root_box_type(node) ==
    IF display(node) = "Block" THEN Some(NodeBox("BlockNode", node))
    ELSE IF display(node) = "Inline" THEN Some(NodeBox("InlineNode", node))
    ELSE None

\* build_layout_tree for a node whose display is not none.
RECURSIVE build_subtree(_)
\* The loop of build_layout_tree over style_node.children from index i on.
RECURSIVE build_children(_, _)
build_children(kids, i) ==
    IF i > Len(kids) THEN <<>>
    ELSE (IF display(kids[i]) = "None" THEN <<>> ELSE <<build_subtree(kids[i])>>)
             \o build_children(kids, i + 1)

build_subtree(node) ==
    [NewLayoutBox(root_box_type(node).val)
        EXCEPT !.children = build_children(node.children, 1)]

\* build_layout_tree: Some(tree), or None where the code panics.
build_layout_tree(node) ==
    IF root_box_type(node).is_some
    THEN Some([NewLayoutBox(root_box_type(node).val)
                  EXCEPT !.children = build_children(node.children, 1)])
    ELSE None

\* An inline container that appends a new AnonymousBlock on every call.
inline_container_children_always_push(box) ==
    IF box.box_type.kind = "BlockNode"
    THEN Append(box.children, NewLayoutBox(AnonymousBlock))
    ELSE box.children

\* get_inline_container: the children of the box after the call.
inline_container_children(box) ==
    IF box.box_type.kind \in {"InlineNode", "AnonymousBlock"} THEN box.children
    ELSE IF /\ box.children # <<>>
            /\ box.children[Len(box.children)].box_type.kind = "AnonymousBlock"
         THEN box.children
         ELSE Append(box.children, NewLayoutBox(AnonymousBlock))

\* get_inline_container: the box returned, 0 for the box itself, else the index
\* of the child returned (self.children.last_mut()).
inline_container_returned(box) ==
    IF box.box_type.kind \in {"InlineNode", "AnonymousBlock"} THEN 0
    ELSE Len(inline_container_children(box))

-----------------------------------------------------------------------------
(* layout.rs : block layout *)

\* Value::Keyword("auto")
Auto == Keyword("auto")

\* The over-constrained test never fires.
over_constrained_never(width, total, containing_width) == FALSE

\* `width != auto && total > containing_block.content.width`
over_constrained(width, total, containing_width) ==
    width # Auto /\ f32_gt(total, containing_width)

\* The match on (width == auto, margin_left == auto, margin_right == auto):
\* the resolved <<width, margin_left, margin_right>>.
resolve_underflow(width, margin_left, margin_right, underflow) ==
    IF width # Auto THEN
        IF margin_left # Auto /\ margin_right # Auto THEN
            <<width, margin_left, Length(f32_add(to_px(margin_right), underflow))>>
        ELSE IF margin_left # Auto /\ margin_right = Auto THEN
            <<width, margin_left, Length(underflow)>>
        ELSE IF margin_left = Auto /\ margin_right # Auto THEN
            <<width, Length(underflow), margin_right>>
        ELSE
            <<width, Length(f32_half(underflow)), Length(f32_half(underflow))>>
    ELSE
        LET ml == IF margin_left = Auto THEN Length(underflow) ELSE margin_left
            mr == IF margin_right = Auto THEN Length(underflow) ELSE margin_right
        IN  IF f32_ge(underflow, f32(0))
            THEN <<Length(underflow), ml, mr>>
            ELSE <<Length(f32(0)), ml, Length(f32_add(to_px(mr), underflow))>>

\* LayoutBox::calc_block_width
calc_block_width(box, containing) ==
    LET style == get_style_node(box)
        width == IF value(style, "width").is_some
                 THEN value(style, "width").val ELSE Auto
        zero == Length(f32(0))
        margin_left == lookup(style, "margin-left", "margin", zero)
        margin_right == lookup(style, "margin-right", "margin", zero)
        padding_left == lookup(style, "padding-left", "padding", zero)
        padding_right == lookup(style, "padding-right", "padding", zero)
        border_left == lookup(style, "border-left-width", "border", zero)
        border_right == lookup(style, "border-right-width", "border", zero)
        total == f32_sum(<<to_px(margin_left), to_px(margin_right),
                           to_px(padding_left), to_px(padding_right),
                           to_px(border_left), to_px(border_right),
                           to_px(width)>>)
        over == over_constrained(width, total, containing.content.width)
        ml == IF over /\ margin_left = Auto THEN Length(f32(0)) ELSE margin_left
        mr == IF over /\ margin_right = Auto THEN Length(f32(0)) ELSE margin_right
        underflow == f32_sub(containing.content.width, total)
        r == resolve_underflow(width, ml, mr, underflow)
    IN  [box EXCEPT
            !.dimensions.content.width = to_px(r[1]),
            !.dimensions.margin.left = to_px(r[2]),
            !.dimensions.margin.right = to_px(r[3]),
            !.dimensions.padding.left = to_px(padding_left),
            !.dimensions.padding.right = to_px(padding_right),
            !.dimensions.border.left = to_px(border_left),
            !.dimensions.border.right = to_px(border_right)]

\* The vertical edges the position phase reads from the style.
vertical_edges(box) ==
    LET style == get_style_node(box)
        zero == Length(f32(0))
    IN  [box EXCEPT
            !.dimensions.margin.top =
                to_px(lookup(style, "margin-top", "margin", zero)),
            !.dimensions.margin.bottom =
                to_px(lookup(style, "margin-bottom", "margin", zero)),
            !.dimensions.border.top =
                to_px(lookup(style, "border-top-width", "border-width", zero)),
            !.dimensions.border.bottom =
                to_px(lookup(style, "border-bottom-width", "border-width", zero)),
            !.dimensions.padding.top =
                to_px(lookup(style, "padding-top", "padding", zero)),
            !.dimensions.padding.bottom =
                to_px(lookup(style, "padding-bottom", "padding", zero))]

\* LayoutBox::calc_block_position
calc_block_position(box, containing) ==
    LET b == vertical_edges(box)
        d == b.dimensions
    IN  [b EXCEPT
            !.dimensions.content.x =
                f32_add(f32_add(f32_add(containing.content.x, d.margin.left),
                                d.border.left),
                        d.padding.left),
            !.dimensions.content.y =
                f32_add(f32_add(f32_add(f32_add(containing.content.height,
                                                containing.content.y),
                                        d.margin.top),
                                d.border.top),
                        d.padding.top)]

\* A height phase that never reads the style.
calc_block_height_ignores_style(box) == box

\* LayoutBox::calc_block_height
calc_block_height(box) ==
    LET h == value(get_style_node(box), "height")
    IN  IF h.is_some /\ h.val.type = "Length" /\ h.val.unit = "Px"
        THEN [box EXCEPT !.dimensions.content.height = h.val.f]
        ELSE box

RECURSIVE layout(_, _)
\* LayoutBox::layout_block_children, from child i on.
RECURSIVE layout_block_children(_, _)
layout_block_children(box, i) ==
    IF i > Len(box.children) THEN box
    ELSE LET child == layout(box.children[i], box.dimensions)
         IN  layout_block_children(
                 [box EXCEPT
                     !.children[i] = child,
                     !.dimensions.content.height =
                         f32_add(@, margin_box(child.dimensions).height)],
                 i + 1)

\* LayoutBox::layout_block
layout_block(box, containing) ==
    calc_block_height(
        layout_block_children(
            calc_block_position(calc_block_width(box, containing), containing),
            1))

\* A layout that lays an Inline box out as if it were a Block.
layout_inline_as_block(box, containing) ==
    IF box.box_type.kind \in {"BlockNode", "InlineNode"}
    THEN layout_block(box, containing)
    ELSE box

\* LayoutBox::layout
layout(box, containing) ==
    IF box.box_type.kind = "BlockNode" THEN layout_block(box, containing)
    ELSE box

-----------------------------------------------------------------------------
(* The selector matcher on its own: one element, one simple selector. *)

Tags == {"div", "p"}

Ids == {"main", "other"}

\* Longest class attribute, in characters.
MaxClassAttrLen == 3

\* Most classes a selector lists.
MaxSelectorClasses == 2

ClassChars == {"a", "b", " "}

ClassNames == {<<"a">>, <<"b">>, <<"a", "b">>}

SeqsUpTo(S, n) == UNION {[1..k -> S] : k \in 0..n}

Elements ==
    [tag_name : Tags,
     id : {None} \cup {Some(i) : i \in Ids},
     class : {None} \cup {Some(c) : c \in SeqsUpTo(ClassChars, MaxClassAttrLen)}]

SimpleSelectors ==
    [tag_name : {None} \cup {Some(t) : t \in Tags},
     id : {None} \cup {Some(i) : i \in Ids},
     class : SeqsUpTo(ClassNames, MaxSelectorClasses)]

LayoutIdle ==
    /\ style_root = Unused
    /\ layout_root = Unused
    /\ containing_block = Unused
    /\ container = Unused
    /\ cursor = 0
    /\ calls = 0
    /\ phase = Unused
    /\ stack = <<>>

InitMatch ==
    /\ pc = "input"
    /\ elem \in Elements
    /\ selector \in SimpleSelectors
    /\ matched = Unused
    /\ sheet = Unused
    /\ values = Unused
    /\ LayoutIdle

\* A call of matches(elem, selector).
Matches ==
    /\ pc = "input"
    /\ matched' = matches(elem, selector)
    /\ pc' = "done"
    /\ UNCHANGED <<elem, selector, sheet, values, layoutVars>>

NextMatch == Matches

SpecMatch == InitMatch /\ [][NextMatch]_vars

\* What the selector matcher is specified to decide.
MatchesAsSpecified(e, s) ==
    /\ s.tag_name.is_some => e.tag_name = s.tag_name.val
    /\ s.id.is_some => (e.id.is_some /\ e.id.val = s.id.val)
    /\ s.class # <<>> => \E i \in DOMAIN s.class : s.class[i] \in classes(e)

\* C1: matches(element, selector) is true iff every present constraint of the
\* selector holds (tag name equal, id equal, at least one listed class among the
\* element's classes), a selector listing no classes satisfying the class
\* constraint trivially.
C1_MatchesIffConstraintsHold ==
    pc = "done" => (matched = MatchesAsSpecified(elem, selector))

-----------------------------------------------------------------------------
(* The cascade: a stylesheet is parsed rule by rule, then applied to one     *)
(* element.                                                                  *)

\* Most rules of the stylesheet.
MaxRules == 2

Sel(t, i, c) == [tag_name |-> t, id |-> i, class |-> c]

SelDiv == Sel(Some("div"), None, <<>>)

SelA == Sel(None, None, <<<<"a">>>>)

SelB == Sel(None, None, <<<<"b">>>>)

SelDivA == Sel(Some("div"), None, <<<<"a">>>>)

SelMainA == Sel(None, Some("main"), <<<<"a">>>>)

SelMainAB == Sel(None, Some("main"), <<<<"a">>, <<"b">>>>)

\* The selector lists of a rule, as written in the stylesheet:
\* div | .a | .b | div.a | #main.a | .a, #main.a | #main.a.b, .b | div.a, .a
SelectorLists ==
    {<<SelDiv>>, <<SelA>>, <<SelB>>, <<SelDivA>>, <<SelMainA>>,
     <<SelA, SelMainA>>, <<SelMainAB, SelB>>, <<SelDivA, SelA>>}

Decl(n, v) == [name |-> n, value |-> v]

DeclarationLists ==
    {<<Decl("color", Keyword("red"))>>,
     <<Decl("color", Keyword("blue"))>>,
     <<Decl("display", Keyword("block"))>>,
     <<Decl("color", Keyword("red")), Decl("color", Keyword("green"))>>}

PropertyNames == {"color", "display"}

\* <div id="main" class="a b">   <div class="a">   <p class="b">
CascadeElements ==
    {[tag_name |-> "div", id |-> Some("main"), class |-> Some(<<"a", " ", "b">>)],
     [tag_name |-> "div", id |-> None, class |-> Some(<<"a">>)],
     [tag_name |-> "p", id |-> None, class |-> Some(<<"b">>)]}

InitCascade ==
    /\ pc = "parsing"
    /\ elem \in CascadeElements
    /\ sheet = <<>>
    /\ values = Unused
    /\ selector = Unused
    /\ matched = Unused
    /\ LayoutIdle

\* One turn of the loop of CSSParser::parse_rules: rules.push(self.parse_rule()).
ParseRule ==
    /\ pc = "parsing"
    /\ Len(sheet) < MaxRules
    /\ \E raw \in SelectorLists, decls \in DeclarationLists :
           sheet' = Append(sheet, parse_rule(raw, decls))
    /\ UNCHANGED <<pc, elem, selector, matched, values, layoutVars>>

\* A call of specified_values(elem, stylesheet).
SpecifiedValues ==
    /\ pc = "parsing"
    /\ values' = specified_values(elem, sheet)
    /\ pc' = "styled"
    /\ UNCHANGED <<elem, selector, matched, sheet, layoutVars>>

NextCascade == ParseRule \/ SpecifiedValues

SpecCascade == InitCascade /\ [][NextCascade]_vars

\* The last value a rule declares for a property.
LastDeclared(rule, p) ==
    LET at == {i \in DOMAIN rule.declarations : rule.declarations[i].name = p}
    IN  rule.declarations[CHOOSE i \in at : \A j \in at : j <= i].value

Declares(rule, p) == \E i \in DOMAIN rule.declarations : rule.declarations[i].name = p

\* C2: specified_values resolves each property to the value declared by the
\* matching rule of highest specificity, and among matching rules of equal
\* specificity by the one latest in the stylesheet; a property no matching rule
\* declares is absent.
C2_CascadeHighestSpecificityThenLatest ==
    pc = "styled" =>
        LET m == matching_rules(elem, sheet)
        IN  \A p \in PropertyNames :
               LET cand == {i \in DOMAIN m : Declares(m[i][2], p)}
               IN  IF cand = {} THEN p \notin DOMAIN values
                   ELSE /\ p \in DOMAIN values
                        /\ \E w \in cand :
                              /\ \A j \in cand :
                                    \/ SpecLess(m[j][1], m[w][1])
                                    \/ m[j][1] = m[w][1] /\ j <= w
                              /\ values[p] = LastDeclared(m[w][2], p)

\* Two matching rules declare color differently and the earlier one has the
\* higher specificity: specificity, not order, decides.
C2_Witness ==
    /\ pc = "styled"
    /\ LET m == matching_rules(elem, sheet)
       IN  /\ Len(m) = 2
           /\ SpecLess(m[2][1], m[1][1])
           /\ Declares(m[1][2], "color") /\ Declares(m[2][2], "color")
           /\ LastDeclared(m[1][2], "color") # LastDeclared(m[2][2], "color")
           /\ values["color"] = LastDeclared(m[1][2], "color")

\* The highest specificity among the selectors of the rule that match.
BestSpecificity(e, rule) ==
    LET hit == {i \in DOMAIN rule.selectors : matches(e, rule.selectors[i])}
    IN  specificity(rule.selectors[
            CHOOSE i \in hit :
                \A j \in hit : ~SpecLess(specificity(rule.selectors[i]),
                                          specificity(rule.selectors[j]))])

\* C3: the specificity match_rule records for a rule is the highest specificity
\* among the rule's selectors that match the element.
C3_RecordedSpecificityIsBest ==
    \A r \in DOMAIN sheet :
        match_rule(elem, sheet[r]).is_some =>
            match_rule(elem, sheet[r]).val[1] = BestSpecificity(elem, sheet[r])

-----------------------------------------------------------------------------
(* Width resolution on its own: calc_block_width on one fresh block box.     *)

\* Largest declared width or margin, in pixels.
MaxLenPx == 2

\* Largest content width of the containing block, in pixels.
MaxContainingPx == 4

\* A property the style does not have.
Absent == [type |-> "Absent"]

\* The property map that has the properties of f other than the absent ones.
StyleMap(f) == [k \in {n \in DOMAIN f : f[n] # Absent} |-> f[k]]

\* The length of half a pixel.
HalfPx == Length(f32_half(f32(1)))

\* Whole pixels up to the bound, and half a pixel.
DeclaredLengths == {Px(n) : n \in 0..MaxLenPx} \cup {HalfPx}

MarginChoices == {Absent, Auto} \cup DeclaredLengths

WidthStyles ==
    {StyleMap("width" :> w @@ "margin-left" :> ml @@ "margin-right" :> mr
              @@ "margin" :> m @@ "padding" :> p @@ "border-left-width" :> b) :
        w \in {Absent, Auto} \cup DeclaredLengths,
        ml \in MarginChoices, mr \in MarginChoices,
        m \in {Absent, Auto, Px(1)},
        p \in {Absent, Px(1)},
        b \in {Absent, Px(1)}}

ContainingWidth(w) ==
    [DefaultDimensions EXCEPT !.content.width = w]

InitWidth ==
    /\ pc = "unlaid"
    /\ layout_root \in
          {NewLayoutBox(NodeBox("BlockNode", StyledNode(sv, <<>>))) :
              sv \in WidthStyles}
    /\ containing_block \in {ContainingWidth(f32(n)) : n \in 0..MaxContainingPx}
    /\ style_root = Unused
    /\ container = Unused
    /\ cursor = 0
    /\ calls = 0
    /\ phase = Unused
    /\ stack = <<>>
    /\ elem = Unused
    /\ selector = Unused
    /\ matched = Unused
    /\ sheet = Unused
    /\ values = Unused

\* A call of calc_block_width(containing_block) on the box.
CalcBlockWidth ==
    /\ pc = "unlaid"
    /\ layout_root' = calc_block_width(layout_root, containing_block)
    /\ pc' = "width-resolved"
    /\ UNCHANGED <<styleVars, style_root, containing_block, container, cursor, calls,
                 phase, stack>>

NextWidth == CalcBlockWidth

SpecWidth == InitWidth /\ [][NextWidth]_vars

\* The inputs of calc_block_width, as it reads them from the style.
DeclaredWidth(box) ==
    IF value(get_style_node(box), "width").is_some
    THEN value(get_style_node(box), "width").val ELSE Auto

DeclaredMarginLeft(box) ==
    lookup(get_style_node(box), "margin-left", "margin", Length(f32(0)))

DeclaredMarginRight(box) ==
    lookup(get_style_node(box), "margin-right", "margin", Length(f32(0)))

\* The sum of the resolved pixel values, an auto value counting 0.
DeclaredTotal(box) ==
    LET s == get_style_node(box)
        z == Length(f32(0))
    IN  f32_sum(<<to_px(DeclaredMarginLeft(box)), to_px(DeclaredMarginRight(box)),
                  to_px(lookup(s, "padding-left", "padding", z)),
                  to_px(lookup(s, "padding-right", "padding", z)),
                  to_px(lookup(s, "border-left-width", "border", z)),
                  to_px(lookup(s, "border-right-width", "border", z)),
                  to_px(DeclaredWidth(box))>>)

Underflow(box, containing) ==
    f32_sub(containing.content.width, DeclaredTotal(box))

\* The width-auto rule of calc_block_width, as specified, on one box.
AutoWidthAsSpecified(box, containing) ==
    LET d == box.dimensions
        u == Underflow(box, containing)
        ml == IF DeclaredMarginLeft(box) = Auto THEN f32(0)
              ELSE to_px(DeclaredMarginLeft(box))
        mr == IF DeclaredMarginRight(box) = Auto THEN f32(0)
              ELSE to_px(DeclaredMarginRight(box))
    IN  /\ d.margin.left = ml
        /\ f32_ge(u, f32(0)) => d.content.width = u /\ d.margin.right = mr
        /\ f32_gt(f32(0), u) =>
              d.content.width = f32(0) /\ d.margin.right = f32_add(mr, u)
        /\ f32_ge(d.content.width, f32(0))

\* C4: with width auto, every auto margin resolves to 0; the content width is
\* the underflow when that is >= 0, else 0 with the negative underflow added to
\* the right margin; the content width is never negative.
C4_AutoWidthFillsUnderflow ==
    (pc = "width-resolved" /\ DeclaredWidth(layout_root) = Auto)
        => AutoWidthAsSpecified(layout_root, containing_block)

\* The explicit-width rule of calc_block_width, as specified, on one box.
FixedWidthAsSpecified(box, containing) ==
    LET d == box.dimensions
        u == Underflow(box, containing)
        lauto == DeclaredMarginLeft(box) = Auto
        rauto == DeclaredMarginRight(box) = Auto
        over == f32_gt(DeclaredTotal(box), containing.content.width)
    IN  /\ d.content.width = to_px(DeclaredWidth(box))
        /\ ((~lauto /\ ~rauto) \/ over) =>
              /\ d.margin.left = to_px(DeclaredMarginLeft(box))
              /\ d.margin.right = f32_add(to_px(DeclaredMarginRight(box)), u)
        /\ (~lauto /\ rauto /\ ~over) =>
              /\ d.margin.left = to_px(DeclaredMarginLeft(box))
              /\ d.margin.right = u
        /\ (lauto /\ ~rauto /\ ~over) =>
              /\ d.margin.left = u
              /\ d.margin.right = to_px(DeclaredMarginRight(box))
        /\ (lauto /\ rauto /\ ~over) =>
              /\ f32_add(d.margin.left, d.margin.left) = u
              /\ f32_add(d.margin.right, d.margin.right) = u

\* C5: with an explicit pixel width the content width is the declared width, and
\* the underflow goes to the right margin when both margins are fixed or the box
\* is over-constrained, to the one auto margin when only one is auto, and half
\* to each when both are auto.
C5_FixedWidthDistributesUnderflow ==
    (pc = "width-resolved" /\ DeclaredWidth(layout_root).type = "Length")
        => FixedWidthAsSpecified(layout_root, containing_block)

\* An over-constrained box with an auto margin: the auto margin was forced to 0
\* and the negative underflow went to the right margin.
C5_Witness ==
    /\ pc = "width-resolved"
    /\ DeclaredWidth(layout_root) = Px(2)
    /\ DeclaredMarginLeft(layout_root) = Auto
    /\ DeclaredMarginRight(layout_root) = Auto
    /\ f32_gt(f32(0), Underflow(layout_root, containing_block))
    /\ layout_root.dimensions.margin.left = f32(0)
    /\ layout_root.dimensions.margin.right = Underflow(layout_root, containing_block)
    /\ layout_root.dimensions.content.width = f32(2)

-----------------------------------------------------------------------------
(* The layout stage: a style tree is turned into a layout tree                *)
(* (build_layout_tree), inline containers are asked for                      *)
(* (get_inline_container), and the tree is laid out (layout).                 *)

\* Most children of the root styled node.
MaxChildren == 2

\* Most calls of layout on one layout tree.
MaxCalls == 2

\* display: block; height: 2px
BlockFixed == "display" :> Keyword("block") @@ "height" :> Px(2)

\* display: block; margin: 1px; padding: 1px
BlockAuto ==
    "display" :> Keyword("block") @@ "margin" :> Px(1) @@ "padding" :> Px(1)

\* display: block; width: 2px; height: 1px; margin-left: auto;
\* margin-right: auto; margin-top: 1px; border-width: 1px
BlockCentered ==
    "display" :> Keyword("block") @@ "width" :> Px(2) @@ "height" :> Px(1)
    @@ "margin-left" :> Auto @@ "margin-right" :> Auto
    @@ "margin-top" :> Px(1) @@ "border-width" :> Px(1)

\* height: 3px   (display absent: inline)
InlineTall == "height" :> Px(3)

\* display: none
Hidden == "display" :> Keyword("none") @@ "height" :> Px(1)

NodeStyles == {BlockFixed, BlockAuto, BlockCentered, InlineTall, Hidden}

Leaf(sv) == StyledNode(sv, <<>>)

ChildNodes ==
    {Leaf(BlockFixed), Leaf(InlineTall), Leaf(Hidden),
     StyledNode(BlockAuto, <<Leaf(InlineTall), Leaf(BlockCentered)>>),
     StyledNode(BlockCentered, <<Leaf(BlockFixed), Leaf(BlockAuto)>>),
     StyledNode(InlineTall, <<Leaf(BlockFixed)>>)}

StyleTrees ==
    {StyledNode(sv, kids) :
        sv \in NodeStyles, kids \in SeqsUpTo(ChildNodes, MaxChildren)}

Containing(x, y, w, h) ==
    [DefaultDimensions EXCEPT
        !.content = [x |-> f32(x), y |-> f32(y),
                     width |-> f32(w), height |-> f32(h)]]

\* The initial containing block: 6px wide, of height 0, at the origin.
ContainingBlocks == {Containing(0, 0, 6, 0)}

StyleIdle ==
    /\ elem = Unused
    /\ selector = Unused
    /\ matched = Unused
    /\ sheet = Unused
    /\ values = Unused

InitLayout ==
    /\ pc = "start"
    /\ style_root \in StyleTrees
    /\ containing_block \in ContainingBlocks
    /\ layout_root = Unused
    /\ container = Unused
    /\ cursor = 0
    /\ calls = 0
    /\ phase = Unused
    /\ stack = <<>>
    /\ StyleIdle

\* A call of build_layout_tree(style_root).
BuildLayoutTree ==
    /\ pc = "start"
    /\ LET r == build_layout_tree(style_root)
       IN  IF r.is_some
           THEN layout_root' = r.val /\ pc' = "built"
           ELSE pc' = "panicked" /\ UNCHANGED layout_root
    /\ UNCHANGED <<styleVars, style_root, containing_block, container, cursor, calls,
                 phase, stack>>

\* The box of the tree at a path of child indexes (the root or a child of it).
BoxAt(root, path) ==
    IF path = <<>> THEN root ELSE root.children[path[1]]

WithChildrenAt(root, path, kids) ==
    IF path = <<>> THEN [root EXCEPT !.children = kids]
    ELSE [root EXCEPT !.children[path[1]].children = kids]

BoxPaths(root) == {<<>>} \cup {<<i>> : i \in DOMAIN root.children}

\* A call of get_inline_container on a box of the tree.
GetInlineContainer ==
    /\ pc \in {"children", "built"}
    /\ \E path \in BoxPaths(layout_root) :
          LET box == BoxAt(layout_root, path)
              r == inline_container_returned(box)
          IN  /\ layout_root' =
                    WithChildrenAt(layout_root, path, inline_container_children(box))
              /\ container' = IF r = 0 THEN path ELSE Append(path, r)
    /\ UNCHANGED <<styleVars, pc, style_root, containing_block, cursor, calls,
                 phase, stack>>

\* A call of layout_root.layout(containing_block).
Layout ==
    /\ pc = "built"
    /\ calls < MaxCalls
    /\ layout_root' = layout(layout_root, containing_block)
    /\ calls' = calls + 1
    /\ UNCHANGED <<styleVars, pc, style_root, containing_block, container, cursor,
                 phase, stack>>

NextLayout == BuildLayoutTree \/ GetInlineContainer \/ Layout

SpecLayout == InitLayout /\ [][NextLayout]_vars

-----------------------------------------------------------------------------
(* Tree construction step by step: the loop of build_layout_tree over the     *)
(* children of the root, with get_inline_container called in between.         *)

\* display: block
ShownBlock == "display" :> Keyword("block")

\* display: inline
ShownInline == "display" :> Keyword("inline")

\* display: none
NotShown == "display" :> Keyword("none")

DisplayStyles == {ShownBlock, ShownInline, NotShown}

DisplayChildNodes ==
    {StyledNode(sv, kids) :
        sv \in DisplayStyles,
        kids \in {<<>>, <<Leaf(ShownInline)>>, <<Leaf(NotShown), Leaf(ShownBlock)>>}}

DisplayTrees ==
    {StyledNode(sv, kids) :
        sv \in DisplayStyles, kids \in SeqsUpTo(DisplayChildNodes, MaxChildren)}

InitBuild ==
    /\ pc = "start"
    /\ style_root \in DisplayTrees
    /\ layout_root = Unused
    /\ containing_block = Unused
    /\ container = Unused
    /\ cursor = 0
    /\ calls = 0
    /\ phase = Unused
    /\ stack = <<>>
    /\ StyleIdle

\* The head of build_layout_tree: LayoutBox::new for the root, or the panic.
BuildRoot ==
    /\ pc = "start"
    /\ LET bt == root_box_type(style_root)
       IN  IF bt.is_some
           THEN /\ layout_root' = NewLayoutBox(bt.val)
                /\ cursor' = 1
                /\ pc' = "children"
           ELSE /\ pc' = "panicked"
                /\ UNCHANGED <<layout_root, cursor>>
    /\ UNCHANGED <<styleVars, style_root, containing_block, container, calls,
                 phase, stack>>

\* One turn of `for child in &style_node.children`.
BuildChild ==
    /\ pc = "children"
    /\ cursor <= Len(style_root.children)
    /\ LET child == style_root.children[cursor]
       IN  IF display(child) = "None"
           THEN UNCHANGED layout_root
           ELSE layout_root' =
                    [layout_root EXCEPT
                        !.children = Append(@, build_subtree(child))]
    /\ cursor' = cursor + 1
    /\ UNCHANGED <<styleVars, pc, style_root, containing_block, container, calls,
                 phase, stack>>

\* The loop is over: build_layout_tree returns root.
BuildReturn ==
    /\ pc = "children"
    /\ cursor > Len(style_root.children)
    /\ pc' = "built"
    /\ UNCHANGED <<styleVars, layoutVars>>

NextBuild == BuildRoot \/ BuildChild \/ BuildReturn \/ GetInlineContainer

SpecBuild == InitBuild /\ [][NextBuild]_vars

\* Every box of a layout tree.
RECURSIVE AllBoxes(_)
AllBoxes(box) ==
    {box} \cup UNION {AllBoxes(box.children[i]) : i \in DOMAIN box.children}

IsAnonymous(box) == box.box_type.kind = "AnonymousBlock"

\* C9: in no box's child list is an AnonymousBlock immediately followed by
\* another AnonymousBlock, after any sequence of child appends of
\* build_layout_tree and get_inline_container calls; get_inline_container on an
\* Inline or AnonymousBlock box returns the box itself and adds no child.
C9_NoConsecutiveAnonymousBlocks ==
    pc \in {"children", "built"} =>
        \A box \in AllBoxes(layout_root) :
            /\ \A i \in 1..(Len(box.children) - 1) :
                  ~(IsAnonymous(box.children[i]) /\ IsAnonymous(box.children[i + 1]))
            /\ box.box_type.kind # "BlockNode" =>
                  /\ inline_container_children(box) = box.children
                  /\ inline_container_returned(box) = 0

\* get_inline_container was called before and after a block child was appended:
\* the root holds AnonymousBlock, BlockNode, AnonymousBlock, the last returned.
C9_Witness ==
    /\ pc = "built"
    /\ Len(layout_root.children) = 3
    /\ IsAnonymous(layout_root.children[1])
    /\ layout_root.children[2].box_type.kind = "BlockNode"
    /\ IsAnonymous(layout_root.children[3])
    /\ container = <<3>>

-----------------------------------------------------------------------------
(* Claims about the layout of a tree (SpecLayout). *)

\* The boxes layout reaches: the block boxes with only block boxes above them.
RECURSIVE LaidOut(_)
LaidOut(box) ==
    IF box.box_type.kind = "BlockNode"
    THEN {box} \cup UNION {LaidOut(box.children[i]) : i \in DOMAIN box.children}
    ELSE {}

\* The sum of the margin-box heights of the first n boxes of a child list.
RECURSIVE SumMarginBoxHeights(_, _)
SumMarginBoxHeights(kids, n) ==
    IF n = 0 THEN f32(0)
    ELSE f32_add(SumMarginBoxHeights(kids, n - 1),
                 margin_box(kids[n].dimensions).height)

\* The tree was built and laid out exactly once.
LaidOutOnce == pc = "built" /\ calls = 1

\* Child i of the parent is stacked below its earlier siblings.
Stacked(parent, i) ==
    LET c == parent.children[i].dimensions
        p == parent.dimensions
    IN  /\ c.content.y =
              f32_sum(<<p.content.y, SumMarginBoxHeights(parent.children, i - 1),
                        c.margin.top, c.border.top, c.padding.top>>)
        /\ c.content.x =
              f32_sum(<<p.content.x, c.margin.left, c.border.left, c.padding.left>>)

\* Every block child of every laid-out block parent is stacked.
AllStacked ==
    \A parent \in LaidOut(layout_root) :
        \A i \in DOMAIN parent.children :
            parent.children[i].box_type.kind = "BlockNode" => Stacked(parent, i)

\* C6: after layout of a block parent, each block child's content y is the
\* parent's content y plus the margin-box heights of all earlier siblings plus
\* the child's own top margin, border and padding, and its content x is the
\* parent's content x plus the child's left margin, border and padding.
C6_ChildrenStackedTopToBottom ==
    (pc = "built" /\ calls >= 1) => AllStacked

\* The same after the one layout pass over a freshly built tree, where every
\* content height is 0 when the pass starts.
FirstLayoutStacked == LaidOutOnce => AllStacked

\* A block parent, laid out once, whose second block child lies below a first
\* child of non-zero margin-box height.
FirstLayoutStackedWitness ==
    /\ LaidOutOnce
    /\ \E parent \in LaidOut(layout_root) :
          /\ Len(parent.children) >= 2
          /\ parent.children[1].box_type.kind = "BlockNode"
          /\ parent.children[2].box_type.kind = "BlockNode"
          /\ f32_gt(margin_box(parent.children[1].dimensions).height, f32(0))
          /\ f32_gt(parent.children[2].dimensions.margin.top, f32(0))
          /\ Stacked(parent, 2)

\* The explicit pixel height of the style of a box, if it has one.
ExplicitHeight(box) ==
    LET h == value(get_style_node(box), "height")
    IN  IF h.is_some /\ h.val.type = "Length" /\ h.val.unit = "Px"
        THEN Some(h.val.f) ELSE None

HeightAsSpecified(box) ==
    IF ExplicitHeight(box).is_some
    THEN box.dimensions.content.height = ExplicitHeight(box).val
    ELSE box.dimensions.content.height =
             SumMarginBoxHeights(box.children, Len(box.children))

\* C7: after the layout of a freshly built block box its content height is the
\* explicit pixel height of its style when there is one, and otherwise the sum
\* of the margin-box heights of all its children.
C7_HeightExplicitOrSumOfChildren ==
    LaidOutOnce => \A box \in LaidOut(layout_root) : HeightAsSpecified(box)

\* The root has no explicit height and children of non-zero height; one child
\* has an explicit height that differs from what its own children add up to.
C7_Witness ==
    /\ LaidOutOnce
    /\ layout_root.box_type.kind = "BlockNode"
    /\ ~ExplicitHeight(layout_root).is_some
    /\ f32_gt(layout_root.dimensions.content.height, f32(0))
    /\ \E i \in DOMAIN layout_root.children :
          LET c == layout_root.children[i]
          IN  /\ c.box_type.kind = "BlockNode"
              /\ ExplicitHeight(c).is_some
              /\ SumMarginBoxHeights(c.children, Len(c.children))
                     # ExplicitHeight(c).val
              /\ HeightAsSpecified(c)

\* C8: a second call of layout on the same layout tree, with the same containing
\* block, leaves the Dimensions of every box as the first call left them.
C8_SecondLayoutChangesNothing ==
    [][(pc = "built" /\ calls >= 1 /\ calls' = calls + 1)
          => layout_root' = layout_root]_vars

\* C10: build_layout_tree on a root whose display is none ends in the panic and
\* returns no tree; on a block or inline root it returns a tree whose root box is
\* the box of that node.
C10_RootNoneIsFatal ==
    pc \in {"built", "panicked"} =>
        IF display(style_root) = "None"
        THEN pc = "panicked" /\ layout_root = Unused
        ELSE /\ pc = "built"
             /\ layout_root.box_type.node = style_root
             /\ layout_root.box_type.kind =
                    (IF display(style_root) = "Block" THEN "BlockNode"
                     ELSE "InlineNode")

\* A root with display: none and children that would have had boxes.
C10_Witness ==
    /\ pc = "panicked"
    /\ display(style_root) = "None"
    /\ \E i \in DOMAIN style_root.children : display(style_root.children[i]) = "Block"
    /\ layout_root = Unused

-----------------------------------------------------------------------------
(* Specificity on its own: the specificities of two simple selectors are      *)
(* computed and compared, as the sort of specified_values compares them.      *)

InitSpecificity ==
    /\ pc = "input"
    /\ selector \in SimpleSelectors \X SimpleSelectors
    /\ matched = Unused
    /\ elem = Unused
    /\ sheet = Unused
    /\ values = Unused
    /\ LayoutIdle

\* Selector::specificity on both selectors, then a.cmp(&b).
CompareSpecificity ==
    /\ pc = "input"
    /\ matched' = [a |-> specificity(selector[1]),
                   b |-> specificity(selector[2]),
                   ordering |-> cmp(specificity(selector[1]),
                                    specificity(selector[2]))]
    /\ pc' = "done"
    /\ UNCHANGED <<elem, selector, sheet, values, layoutVars>>

NextSpecificity == CompareSpecificity

SpecSpecificity == InitSpecificity /\ [][NextSpecificity]_vars

\* C11: a selector with an id has a strictly greater specificity than any
\* selector without one, whatever their class and tag counts; the id and tag
\* counts are 0 or 1 and the class count is the number of classes listed.
C11_IdOutranksNoId ==
    pc = "done" =>
        /\ (selector[1].id.is_some /\ ~selector[2].id.is_some)
              => matched.ordering = "Greater"
        /\ (~selector[1].id.is_some /\ selector[2].id.is_some)
              => matched.ordering = "Less"
        /\ matched.a[1] = (IF selector[1].id = None THEN 0 ELSE 1)
        /\ matched.a[3] = (IF selector[1].tag_name = None THEN 0 ELSE 1)
        /\ matched.a[2] = Cardinality(DOMAIN selector[1].class)

\* `#main` against `div.a.b`: (1,0,0) is greater than (0,2,1).
C11_Witness ==
    /\ pc = "done"
    /\ selector[1] = Sel(None, Some("main"), <<>>)
    /\ selector[2] = Sel(Some("div"), None, <<<<"a">>, <<"b">>>>)
    /\ matched.a = <<1, 0, 0>>
    /\ matched.b = <<0, 2, 1>>
    /\ matched.ordering = "Greater"

-----------------------------------------------------------------------------
(* One layout call step by step: the calls of LayoutBox::layout in progress   *)
(* are a stack of frames, and each phase of layout_block is one step.         *)

Phases ==
    <<"unlaid", "width-resolved", "position-resolved", "children-laid-out",
      "height-resolved">>

\* The position of a phase in the order of layout_block.
Rank(ph) == CHOOSE k \in DOMAIN Phases : Phases[k] = ph

\* The box of a tree at a path of child indexes.
RECURSIVE BoxOn(_, _)
BoxOn(root, path) ==
    IF path = <<>> THEN root ELSE BoxOn(root.children[Head(path)], Tail(path))

\* The tree with the box at a path replaced.
RECURSIVE ReplaceOn(_, _, _)
ReplaceOn(root, path, box) ==
    IF path = <<>> THEN box
    ELSE [root EXCEPT !.children[Head(path)] = ReplaceOn(@, Tail(path), box)]

\* The paths of all boxes of a tree.
RECURSIVE PathsOf(_)
PathsOf(box) ==
    {<<>>} \cup UNION {{<<i>> \o q : q \in PathsOf(box.children[i])} :
                          i \in DOMAIN box.children}

\* A call box.layout(containing) in progress; i is the child the loop of
\* layout_block_children takes next.
Frame(path, containing) == [path |-> path, containing |-> containing, i |-> 1]

\* A layout_block that resolves the height right after the position.
next_step_height_before_children(box, ph, i) ==
    IF box.box_type.kind # "BlockNode" THEN "return"
    ELSE IF ph = "unlaid" THEN "calc_block_width"
    ELSE IF ph = "width-resolved" THEN "calc_block_position"
    ELSE IF ph = "position-resolved" THEN "calc_block_height"
    ELSE "return"

\* What a call of layout on the box does next, given the last phase done and
\* the loop position: the match of layout, the sequence of layout_block and the
\* loop of layout_block_children.
next_step(box, ph, i) ==
    IF box.box_type.kind # "BlockNode" THEN "return"
    ELSE IF ph = "unlaid" THEN "calc_block_width"
    ELSE IF ph = "width-resolved" THEN "calc_block_position"
    ELSE IF ph = "position-resolved"
         THEN IF i <= Len(box.children) THEN "child" ELSE "children_done"
    ELSE IF ph = "children-laid-out" THEN "calc_block_height"
    ELSE "return"

Top == stack[Len(stack)]

TopBox == BoxOn(layout_root, Top.path)

TopNext == next_step(TopBox, phase[Top.path], Top.i)

Running == pc = "laying-out" /\ stack # <<>>

\* layout_root.layout(containing_block) is called.
LayoutCall ==
    /\ pc = "built"
    /\ calls = 0
    /\ stack' = <<Frame(<<>>, containing_block)>>
    /\ phase' = [p \in PathsOf(layout_root) |-> "unlaid"]
    /\ pc' = "laying-out"
    /\ UNCHANGED <<styleVars, style_root, layout_root, containing_block,
                   container, cursor, calls>>

\* self.calc_block_width(containing_block)
StepWidth ==
    /\ Running
    /\ TopNext = "calc_block_width"
    /\ layout_root' =
          ReplaceOn(layout_root, Top.path, calc_block_width(TopBox, Top.containing))
    /\ phase' = [phase EXCEPT ![Top.path] = "width-resolved"]
    /\ UNCHANGED <<styleVars, pc, style_root, containing_block, container,
                   cursor, calls, stack>>

\* self.calc_block_position(containing_block)
StepPosition ==
    /\ Running
    /\ TopNext = "calc_block_position"
    /\ layout_root' =
          ReplaceOn(layout_root, Top.path,
                    calc_block_position(TopBox, Top.containing))
    /\ phase' = [phase EXCEPT ![Top.path] = "position-resolved"]
    /\ UNCHANGED <<styleVars, pc, style_root, containing_block, container,
                   cursor, calls, stack>>

\* child.layout(self.dimensions) is called for the next child of the loop.
StepChild ==
    /\ Running
    /\ TopNext = "child"
    /\ stack' = Append(stack, Frame(Append(Top.path, Top.i), TopBox.dimensions))
    /\ UNCHANGED <<styleVars, pc, style_root, layout_root, containing_block,
                   container, cursor, calls, phase>>

\* The loop of layout_block_children is over.
StepChildrenDone ==
    /\ Running
    /\ TopNext = "children_done"
    /\ phase' = [phase EXCEPT ![Top.path] = "children-laid-out"]
    /\ UNCHANGED <<styleVars, pc, style_root, layout_root, containing_block,
                   container, cursor, calls, stack>>

\* self.calc_block_height()
StepHeight ==
    /\ Running
    /\ TopNext = "calc_block_height"
    /\ layout_root' = ReplaceOn(layout_root, Top.path, calc_block_height(TopBox))
    /\ phase' = [phase EXCEPT ![Top.path] = "height-resolved"]
    /\ UNCHANGED <<styleVars, pc, style_root, containing_block, container,
                   cursor, calls, stack>>

\* The call of layout returns; in the caller's loop the content height grows by
\* the margin-box height of the child and the loop moves on.
StepReturn ==
    /\ Running
    /\ TopNext = "return"
    /\ IF Len(stack) = 1
       THEN /\ stack' = <<>>
            /\ pc' = "laid-out"
            /\ calls' = calls + 1
            /\ UNCHANGED layout_root
       ELSE LET caller == stack[Len(stack) - 1]
                parent == BoxOn(layout_root, caller.path)
            IN  /\ layout_root' =
                      ReplaceOn(layout_root, caller.path,
                          [parent EXCEPT !.dimensions.content.height =
                              f32_add(@, margin_box(TopBox.dimensions).height)])
                /\ stack' = [SubSeq(stack, 1, Len(stack) - 1)
                                EXCEPT ![Len(stack) - 1].i = caller.i + 1]
                /\ UNCHANGED <<pc, calls>>
    /\ UNCHANGED <<styleVars, style_root, containing_block, container, cursor,
                   phase>>

NextPhases ==
    \/ BuildLayoutTree
    \/ LayoutCall
    \/ StepWidth
    \/ StepPosition
    \/ StepChild
    \/ StepChildrenDone
    \/ StepHeight
    \/ StepReturn

SpecPhases == InitLayout /\ [][NextPhases]_vars

\* The steps of one call end in the tree that layout computes as a whole.
StepsAgreeWithLayout ==
    pc = "laid-out" =>
        layout_root = layout(build_layout_tree(style_root).val, containing_block)

\* The box at a path is one that layout lays out: a Block box all of whose
\* ancestors are Block boxes.
RECURSIVE ReachedAsBlock(_, _)
ReachedAsBlock(root, path) ==
    /\ root.box_type.kind = "BlockNode"
    /\ path # <<>> => ReachedAsBlock(root.children[Head(path)], Tail(path))

Parent(path) == SubSeq(path, 1, Len(path) - 1)

InCall == pc \in {"laying-out", "laid-out"}

\* Every step moves each box at most one phase forward, never back.
PhaseOrderStep ==
    (pc = "laying-out" /\ pc' \in {"laying-out", "laid-out"}) =>
        \A p \in DOMAIN phase :
            \/ phase'[p] = phase[p]
            \/ Rank(phase'[p]) = Rank(phase[p]) + 1

\* While a call on a child is in progress, the caller is width- and
\* position-resolved and has not gone further.
ParentResolvedFirst ==
    \A k \in 2 .. Len(stack) : phase[stack[k - 1].path] = "position-resolved"

\* A box that has left unlaid has a parent that is at least position-resolved.
StartedUnderResolvedParent ==
    \A p \in DOMAIN phase :
        (p # <<>> /\ phase[p] # "unlaid") =>
            Rank(phase[Parent(p)]) >= Rank("position-resolved")

\* The boxes layout does not reach as Block boxes stay unlaid.
OthersStayUnlaid ==
    \A p \in DOMAIN phase :
        ~ReachedAsBlock(layout_root, p) => phase[p] = "unlaid"

\* A box past position-resolved has all its Block children height-resolved.
BlockChildrenBeforeParentHeight ==
    \A p \in DOMAIN phase :
        (p # <<>> /\ ReachedAsBlock(layout_root, p)
              /\ Rank(phase[Parent(p)]) >= Rank("children-laid-out")) =>
            phase[p] = "height-resolved"

\* When the call is over, every box laid out as a Block is height-resolved.
BlocksEndHeightResolved ==
    pc = "laid-out" =>
        \A p \in DOMAIN phase :
            ReachedAsBlock(layout_root, p) => phase[p] = "height-resolved"

PhasesOfBlocks ==
    InCall =>
        /\ ParentResolvedFirst
        /\ StartedUnderResolvedParent
        /\ OthersStayUnlaid
        /\ BlockChildrenBeforeParentHeight
        /\ BlocksEndHeightResolved

\* C12 (amended): during one layout call every box laid out as a Block (a Block
\* box under Block ancestors only) goes through unlaid, width-resolved,
\* position-resolved, children-laid-out, height-resolved one phase at a time
\* and never back; a box is width- and position-resolved while any child's
\* call runs; a parent is past position-resolved only when all its Block
\* children are height-resolved; every other box stays unlaid.
C12_BlockBoxesPassPhasesInOrder == [](PhasesOfBlocks) /\ [][PhaseOrderStep]_vars

\* A finished call in which a Block grandchild went through all phases while a
\* box that is not a Block stayed unlaid.
C12_Witness ==
    /\ pc = "laid-out"
    /\ \E p \in DOMAIN phase :
          /\ Len(p) = 2
          /\ ReachedAsBlock(layout_root, p)
          /\ phase[p] = "height-resolved"
    /\ \E p \in DOMAIN phase :
          /\ BoxOn(layout_root, p).box_type.kind # "BlockNode"
          /\ phase[p] = "unlaid"
    /\ phase[<<>>] = "height-resolved"

\* A box past position-resolved has all its children height-resolved.
AllChildrenBeforeParentHeight ==
    \A p \in DOMAIN phase :
        (p # <<>> /\ Rank(phase[Parent(p)]) >= Rank("children-laid-out")) =>
            phase[p] = "height-resolved"

\* When the call is over, every box is height-resolved.
AllEndHeightResolved ==
    pc = "laid-out" => \A p \in DOMAIN phase : phase[p] = "height-resolved"

PhasesOfAllBoxes ==
    InCall =>
        /\ ParentResolvedFirst
        /\ StartedUnderResolvedParent
        /\ AllChildrenBeforeParentHeight
        /\ AllEndHeightResolved

\* C12 as stated: every LayoutBox goes through the phases, and a parent is not
\* height-resolved before all of its children are.
C12_EveryBoxPassesPhasesInOrder == [](PhasesOfAllBoxes) /\ [][PhaseOrderStep]_vars

-----------------------------------------------------------------------------
(* Layout of boxes that are not Block boxes.                                  *)

NotBlock(box) == box.box_type.kind # "BlockNode"

\* A step of SpecLayout that is a call of layout_root.layout.
IsLayoutCall == pc = "built" /\ calls' = calls + 1

\* The call leaves every box that is not a Block, with its whole subtree, as
\* it was.
NonBlockSubtreesUnchanged ==
    \A p \in PathsOf(layout_root) :
        NotBlock(BoxOn(layout_root, p)) =>
            BoxOn(layout_root', p) = BoxOn(layout_root, p)

\* The call adds to the content height of a laid-out Block without an explicit
\* height the margin-box height of each child: of a child that is not a Block,
\* the height it had before the call.
NonBlockChildrenAddUnchangedHeight ==
    \A p \in PathsOf(layout_root) :
        LET before == BoxOn(layout_root, p)
            after == BoxOn(layout_root', p)
        IN  (ReachedAsBlock(layout_root, p) /\ ~ExplicitHeight(before).is_some) =>
                /\ after.dimensions.content.height =
                      f32_add(before.dimensions.content.height,
                              SumMarginBoxHeights(after.children,
                                                  Len(after.children)))
                /\ \A i \in DOMAIN before.children :
                      NotBlock(before.children[i]) =>
                          margin_box(after.children[i].dimensions).height =
                              margin_box(before.children[i].dimensions).height

\* In the first call the boxes that are not Blocks are as built: their
\* margin-box height is 0.
FreshNonBlockHeightIsZero ==
    calls = 0 =>
        \A p \in PathsOf(layout_root) :
            NotBlock(BoxOn(layout_root, p)) =>
                /\ BoxOn(layout_root', p).dimensions = DefaultDimensions
                /\ margin_box(BoxOn(layout_root', p).dimensions).height = f32(0)

\* C13: layout on an Inline or AnonymousBlock box changes neither the box nor
\* any box of its subtree (its Block descendants are not laid out), and such a
\* child adds its unchanged margin-box height, 0 when freshly built, to the
\* content height its Block parent accumulates.
C13_NonBlockLayoutIsNoOp ==
    [][IsLayoutCall =>
          /\ NonBlockSubtreesUnchanged
          /\ NonBlockChildrenAddUnchangedHeight
          /\ FreshNonBlockHeightIsZero]_vars

\* After one call: a Block root with a resolved width that has an
\* AnonymousBlock child and an Inline child, the Inline child holding a Block
\* with a declared height that is still as built; the root's height is what its
\* children add up to.
C13_Witness ==
    /\ LaidOutOnce
    /\ layout_root.box_type.kind = "BlockNode"
    /\ ~ExplicitHeight(layout_root).is_some
    /\ f32_gt(layout_root.dimensions.content.width, f32(0))
    /\ \E i \in DOMAIN layout_root.children :
          layout_root.children[i].box_type.kind = "AnonymousBlock"
    /\ \E p \in PathsOf(layout_root) :
          /\ Len(p) = 2
          /\ BoxOn(layout_root, SubSeq(p, 1, 1)).box_type.kind = "InlineNode"
          /\ BoxOn(layout_root, p).box_type.kind = "BlockNode"
          /\ ExplicitHeight(BoxOn(layout_root, p)).is_some
          /\ BoxOn(layout_root, p).dimensions = DefaultDimensions
    /\ layout_root.dimensions.content.height =
          SumMarginBoxHeights(layout_root.children, Len(layout_root.children))

-----------------------------------------------------------------------------
(* The block-width constraint after calc_block_width.                         *)

\* The resolved horizontal sizes of a box, margin edge to margin edge.
ResolvedTotal(box) ==
    LET d == box.dimensions
    IN  f32_sum(<<d.margin.left, d.border.left, d.padding.left, d.content.width,
                  d.padding.right, d.border.right, d.margin.right>>)

\* The resolved horizontal sizes add up to the containing block's width.
WidthConstraintHolds ==
    ResolvedTotal(layout_root) = containing_block.content.width

\* C14: after calc_block_width on a block box, whatever of its width and its
\* left and right margins is auto or fixed, margin-left + border-left +
\* padding-left + width + padding-right + border-right + margin-right equals
\* the content width of the containing block.
C14_BlockWidthConstraintHolds == pc = "width-resolved" => WidthConstraintHolds

\* The width is auto and a margin is auto as well.
AutoWidthWithAutoMargin ==
    /\ DeclaredWidth(layout_root) = Auto
    /\ (DeclaredMarginLeft(layout_root) = Auto
           \/ DeclaredMarginRight(layout_root) = Auto)

\* Outside the case of an auto width with an auto margin the constraint holds.
WidthConstraintHoldsWithoutAutoPair ==
    (pc = "width-resolved" /\ ~AutoWidthWithAutoMargin) => WidthConstraintHolds

\* With an auto width the sum is off by the underflow once for each auto
\* margin, which the width-auto arm sets to the underflow.
WidthConstraintOffByAutoMargins ==
    (pc = "width-resolved" /\ AutoWidthWithAutoMargin) =>
        LET u == Underflow(layout_root, containing_block)
            z == f32(0)
        IN  ResolvedTotal(layout_root) =
                f32_sum(<<containing_block.content.width,
                          IF DeclaredMarginLeft(layout_root) = Auto THEN u ELSE z,
                          IF DeclaredMarginRight(layout_root) = Auto THEN u ELSE z>>)

====
